---- MODULE Spec2Model ----
(***************************************************************************)
(* Hunyuan Portal: the model query orchestration layer.                    *)
(*                                                                         *)
(*   core   src/src/hunyuan_app/core/client.py  connect_client,            *)
(*          query_hunyuan_model                                            *)
(*   web    src/src/hunyuan_app/web/app.py      handle_chat on the Flask   *)
(*          session                                                        *)
(*   cli    src/src/hunyuan_app/cli/main.py     chat, ask                  *)
(*   runner src/src/hunyuan_app/web/runner.py   main                       *)
(*   legacy src/hunyuan.py, src/hunyuan_shell.py chat, ask, main,          *)
(*          query_hunyuan                                                  *)
(*                                                                         *)
(* Strings are sequences of one-character strings, so that strip() and the *)
(* Markdown rendering are computed and not assumed.  Python values that    *)
(* may be None are tagged records.  The remote transport (gradio_client)   *)
(* is the environment: each constructor call and each predict call draws   *)
(* its outcome from the next element of an outcome stream.                 *)
(***************************************************************************)
EXTENDS Integers, Sequences, FiniteSets, TLC

\* ------------------------------------------------------------------ bounds
MaxHist == 4        \* chat history entries kept in the model
MaxAttempts == 2    \* transport outcomes available to one core call
MaxHistApp == 2     \* chat history entries kept where all entry points run
MaxTurns == 2       \* dispatches of one interactive loop
MaxHistTwo == 2     \* chat history entries of each of two concurrent sessions

\* ------------------------------------------------------- program constants
DEFAULT_GRADIO_URL == <<"d">>
GRADIO_API_ENDPOINT == <<"/", "c">>
SESSION_CHAT_URL_KEY == "chat_url"
SESSION_CHAT_HISTORY_KEY == "chat_history"
SESSION_UNIQUE_ID_KEY == "user_unique_id"
\* the 'ask' response kept under the key of the chat URL
SESSION_ASK_RESPONSE_KEY_shared == "chat_url"
SESSION_ASK_RESPONSE_KEY == "ask_response"

\* ------------------------------------------------------------ Python values
PyStr(s) == [t |-> "str", s |-> s, n |-> 0]
PyNone == [t |-> "NoneType", s |-> <<>>, n |-> 0]
PyInt(n) == [t |-> "int", s |-> <<>>, n |-> n]

\* str(x) of the values a predict call can yield
Digit(n) == CASE n = 0 -> "0" [] n = 1 -> "1" [] n = 2 -> "2" [] n = 3 -> "3"
              [] n = 4 -> "4" [] n = 5 -> "5" [] n = 6 -> "6" [] n = 7 -> "7"
              [] n = 8 -> "8" [] OTHER -> "9"
str(v) == CASE v.t = "str" -> v.s
            [] v.t = "int" -> <<Digit(v.n)>>
            [] OTHER -> <<"N", "o", "n", "e">>

IsSpace(c) == c \in {" ", "\n", "\t"}

RECURSIVE lstrip(_)
lstrip(s) == IF s # <<>> /\ IsSpace(Head(s)) THEN lstrip(Tail(s)) ELSE s

RECURSIVE rstrip(_)
rstrip(s) == IF s # <<>> /\ IsSpace(s[Len(s)])
             THEN rstrip(SubSeq(s, 1, Len(s) - 1)) ELSE s

strip(s) == rstrip(lstrip(s))

\* markdown.markdown(text): a blank text renders to the empty string, any
\* other one-line text to one paragraph element around the trimmed text.
markdown(s) == IF strip(s) = <<>> THEN <<>>
               ELSE <<"<p>">> \o strip(s) \o <<"</p>">>

\* ------------------------------------------------------ exception hierarchy
\* Python's built-in hierarchy, as far as the except clauses tell it apart.
Bases(c) == CASE c = "ValueError" -> {"ValueError", "Exception", "BaseException"}
              [] c = "ConnectionError" -> {"ConnectionError", "OSError", "Exception", "BaseException"}
              [] c = "ConnectionResetError" -> {"ConnectionResetError", "ConnectionError", "OSError", "Exception", "BaseException"}
              [] c = "TimeoutError" -> {"TimeoutError", "OSError", "Exception", "BaseException"}
              [] c = "AppError" -> {"AppError", "Exception", "BaseException"}
              [] c = "ConnectionSetupError" -> {"ConnectionSetupError", "Exception", "BaseException"}
              [] c = "PredictionError" -> {"PredictionError", "Exception", "BaseException"}
              [] c = "RuntimeError" -> {"RuntimeError", "Exception", "BaseException"}
              [] c = "KeyboardInterrupt" -> {"KeyboardInterrupt", "BaseException"}
              [] c = "PermissionError" -> {"PermissionError", "OSError", "Exception", "BaseException"}
              [] c = "TypeError" -> {"TypeError", "Exception", "BaseException"}
              [] c = "Exit" -> {"Exit", "RuntimeError", "Exception", "BaseException"}
              [] c = "SystemExit" -> {"SystemExit", "BaseException"}
              [] c = "FileNotFoundError" -> {"FileNotFoundError", "OSError", "Exception", "BaseException"}
              [] c = "BrokenPipeError" -> {"BrokenPipeError", "ConnectionError", "OSError", "Exception", "BaseException"}
              [] OTHER -> {c, "BaseException"}

isinstance(c, cls) == cls \in Bases(c)

\* ---------------------------------------------------------------- transport
\* Outcome of one GradioClient(url) call or of one client.predict(...) call.
Ok(v) == [ok |-> TRUE, value |-> v, exc |-> "-"]
Fails(e) == [ok |-> FALSE, value |-> PyNone, exc |-> e]

GradioClient(url) == [target |-> url, live |-> TRUE]
NoClient == [target |-> <<>>, live |-> FALSE]

\* What a call hands back to its caller: a value or a client, or an
\* exception of class exc raised "from" cause.  rest is what the call left
\* of the transport's outcome stream: it made Len(outs) - Len(rest) calls.
Return(v, rest) ==
    [raised |-> FALSE, value |-> v, client |-> NoClient, exc |-> "-", cause |-> "-", rest |-> rest]
ReturnClient(h, rest) ==
    [raised |-> FALSE, value |-> PyNone, client |-> h, exc |-> "-", cause |-> "-", rest |-> rest]
Raise(e, c, rest) ==
    [raised |-> TRUE, value |-> PyNone, client |-> NoClient, exc |-> e, cause |-> c, rest |-> rest]

\* The transport calls a core call made, as events: the calls that consumed
\* an outcome of outs, in order.
ConnectEvents(url, outs, res) ==
    [i \in 1..(Len(outs) - Len(res.rest)) |->
        [op |-> "connect", url |-> url, message |-> <<>>, ok |-> outs[i].ok,
         exc |-> outs[i].exc,
         client |-> IF outs[i].ok THEN GradioClient(url) ELSE NoClient]]
PredictEvents(message, client, outs, res) ==
    [i \in 1..(Len(outs) - Len(res.rest)) |->
        [op |-> "predict", url |-> client.target, message |-> message, ok |-> outs[i].ok,
         exc |-> outs[i].exc, client |-> client]]

\* connect_client without its last except clause: an exception that is not
\* a ValueError leaves the function as the transport raised it.
connect_client_no_catch_all(url, outs) ==
    LET r == Head(outs) IN
    IF r.ok THEN ReturnClient(GradioClient(url), Tail(outs))
    ELSE IF isinstance(r.exc, "ValueError")
         THEN Raise("ConnectionSetupError", r.exc, Tail(outs))
    ELSE Raise(r.exc, "-", Tail(outs))

\* connect_client with one more attempt after a failed constructor call.
connect_client_retry(url, outs) ==
    LET r == Head(outs)
        r2 == Head(Tail(outs)) IN
    IF r.ok THEN ReturnClient(GradioClient(url), Tail(outs))
    ELSE IF r2.ok THEN ReturnClient(GradioClient(url), Tail(Tail(outs)))
    ELSE IF isinstance(r2.exc, "Exception")
         THEN Raise("ConnectionSetupError", r2.exc, Tail(Tail(outs)))
    ELSE Raise(r2.exc, "-", Tail(Tail(outs)))

\* core/client.py connect_client: Head(outs) is the outcome of the
\* GradioClient(url) call.
connect_client(url, outs) ==
    LET r == Head(outs) IN
    IF r.ok THEN ReturnClient(GradioClient(url), Tail(outs))
    ELSE IF isinstance(r.exc, "ValueError")
         THEN Raise("ConnectionSetupError", r.exc, Tail(outs))
    ELSE IF isinstance(r.exc, "Exception")
         THEN Raise("ConnectionSetupError", r.exc, Tail(outs))
    ELSE Raise(r.exc, "-", Tail(outs))

\* core/client.py query_hunyuan_model: Head(outs) is the outcome of the
\* client.predict call.
query_hunyuan_model(message, client, api_endpoint, outs) ==
    LET r == Head(outs) IN
    IF r.ok
    THEN Return(IF r.value # PyNone THEN PyStr(str(r.value)) ELSE PyStr(<<>>), Tail(outs))
    ELSE IF isinstance(r.exc, "ConnectionError")
         THEN Raise("ConnectionError", r.exc, Tail(outs))
    ELSE IF isinstance(r.exc, "Exception")
         THEN Raise("PredictionError", r.exc, Tail(outs))
    ELSE Raise(r.exc, "-", Tail(outs))

\* hunyuan.py query_hunyuan: both branches of show_progress make the same
\* single predict call.
hunyuan_query_hunyuan(message, client, show_progress, outs) ==
    LET r == Head(outs) IN
    IF r.ok
    THEN Return(IF r.value # PyNone THEN PyStr(str(r.value)) ELSE PyStr(<<>>), Tail(outs))
    ELSE IF isinstance(r.exc, "ConnectionError")
         THEN Raise("ConnectionError", r.exc, Tail(outs))
    ELSE IF isinstance(r.exc, "Exception")
         THEN Raise("RuntimeError", r.exc, Tail(outs))
    ELSE Raise(r.exc, "-", Tail(outs))

\* hunyuan_shell.py query_hunyuan: the predict result, or its exception,
\* is handed on as it is.
shell_query_hunyuan(message, client, outs) ==
    LET r == Head(outs) IN
    IF r.ok THEN Return(r.value, Tail(outs)) ELSE Raise(r.exc, "-", Tail(outs))

\* ------------------------------------------------------------------- inputs
Targets == {<<"a">>, <<"b">>}
Queries == {<<"x">>, <<"y">>}
CtorOutcomes ==
    {Ok(PyNone)} \cup
    {Fails(e) : e \in {"ValueError", "ConnectionError", "TimeoutError", "KeyboardInterrupt"}}
PredictOutcomes ==
    {Ok(PyStr(<<"h", "i">>)), Ok(PyNone), Ok(PyInt(7))} \cup
    {Fails(e) : e \in {"ConnectionError", "ConnectionResetError", "TimeoutError",
                       "AppError", "ValueError", "KeyboardInterrupt"}}
Streams(S) == [1..MaxAttempts -> S]
\* a transport that answers every call of one request the same way
Stream(o) == [i \in 1..MaxAttempts |-> o]

\* the fields a /chat form can carry, before strip()
FormKeys == {"url", "message", "clear_chat"}
RawUrls == {<<"a", " ">>, <<" ">>}
RawMessages == {<<" ", "x">>, <<"y">>}
WebCtorOutcomes == {Ok(PyNone), Fails("ValueError"), Fails("KeyboardInterrupt")}
WebPredictOutcomes ==
    {Ok(PyStr(<<"h", "i">>)), Ok(PyNone),
     Fails("ConnectionError"), Fails("TimeoutError"), Fails("KeyboardInterrupt")}
FormOf(D, u, m) ==
    [k \in D |-> CASE k = "url" -> u [] k = "message" -> m [] OTHER -> <<"1">>]
Forms == {FormOf(D, u, m) : D \in SUBSET FormKeys, u \in RawUrls, m \in RawMessages}

\* -------------------------------------------------------------------- state
VARIABLES
    call,       \* core: the last call of a core or legacy function, with its result
    session,    \* web: the Flask session, a mapping from the keys set so far
    request,    \* web: the form of the last /chat request, as the handler read it
    outcome,    \* web: how the last /chat request ended
    was_reset,  \* web: the last /chat request reset the chat (URL change or clear)
    hist_by,    \* web: for each chat history entry, the URL of the request that appended it
    turns,      \* web: the {query, response} pairs of the submits since the last reset
    clean,      \* web: no submit failed since the last reset
    rendered,   \* web: the 'ask' response the last request rendered, if any
    io,         \* the transport calls of the last request or invocation, in order
    cli,        \* command line: the running or ended invocation of a command
    two,        \* web: the cookie sessions of two browsers and their requests in flight
    runner      \* web runner: the runner process and its Waitress child

vars == <<call, session, request, outcome, was_reset, hist_by, turns, clean, rendered, io, cli, two, runner>>
webVars == <<session, request, outcome, was_reset, hist_by, turns, clean, rendered, io>>
webOnly == <<session, request, outcome, was_reset, hist_by, turns, clean, rendered>>

NoCall == [fn |-> "-", url |-> <<>>, message |-> <<>>, outs |-> <<>>, res |-> Return(PyNone, <<>>)]
NoRequest == [url |-> <<>>, message |-> <<>>, clear_chat |-> FALSE]
NoInput == [kind |-> "-", text |-> <<>>]
Browsers == {"A", "B"}
NoReply == [pending |-> FALSE, session |-> << >>, solo |-> << >>]
NoTwo == [sessions |-> [b \in Browsers |-> << >>],
          inflight |-> [b \in Browsers |-> NoReply],
          solo |-> << >>,
          overlap |-> FALSE]
NoProc == [prog |-> "-", pc |-> "-", client |-> NoClient, code |-> 0, did |-> "-",
           input |-> NoInput]

Init ==
    /\ call = NoCall
    /\ session = << >>
    /\ request = NoRequest
    /\ outcome = "-"
    /\ was_reset = FALSE
    /\ hist_by = << >>
    /\ turns = << >>
    /\ clean = TRUE
    /\ rendered = PyNone
    /\ io = << >>
    /\ cli = NoProc
    /\ two = NoTwo
    /\ runner = [pc |-> "init", threads |-> <<>>, process |-> FALSE, child |-> "none",
                 returncode |-> 0, signals |-> {}, code |-> 0, out |-> << >>]

\* ------------------------------------------------------- core and legacy calls
\* One call of one function on inputs drawn from the sets above.
CallConnectClient ==
    /\ call = NoCall
    /\ \E url \in Targets, outs \in Streams(CtorOutcomes) :
          call' = [fn |-> "connect_client", url |-> url, message |-> <<>>, outs |-> outs,
                   res |-> connect_client(url, outs)]

CallQueryHunyuanModel ==
    /\ call = NoCall
    /\ \E m \in Queries \cup {<<>>}, url \in Targets, outs \in Streams(PredictOutcomes) :
          call' = [fn |-> "query_hunyuan_model", url |-> url, message |-> m, outs |-> outs,
                   res |-> query_hunyuan_model(m, GradioClient(url), GRADIO_API_ENDPOINT, outs)]

CallHunyuanQuery ==
    /\ call = NoCall
    /\ \E m \in Queries, url \in Targets, sp \in BOOLEAN, outs \in Streams(PredictOutcomes) :
          call' = [fn |-> "hunyuan.query_hunyuan", url |-> url, message |-> m, outs |-> outs,
                   res |-> hunyuan_query_hunyuan(m, GradioClient(url), sp, outs)]

CallShellQuery ==
    /\ call = NoCall
    /\ \E m \in Queries, url \in Targets, outs \in Streams(PredictOutcomes) :
          call' = [fn |-> "hunyuan_shell.query_hunyuan", url |-> url, message |-> m, outs |-> outs,
                   res |-> shell_query_hunyuan(m, GradioClient(url), outs)]

NextCore ==
    \/ CallConnectClient /\ UNCHANGED <<webVars, cli, two, runner>>
    \/ CallQueryHunyuanModel /\ UNCHANGED <<webVars, cli, two, runner>>
    \/ CallHunyuanQuery /\ UNCHANGED <<webVars, cli, two, runner>>
    \/ CallShellQuery /\ UNCHANGED <<webVars, cli, two, runner>>

SpecCore == Init /\ [][NextCore]_vars

\* ------------------------------------------------------------------ web app
\* dict operations on the session and on the form
Has(d, k) == k \in DOMAIN d
Get(d, k, default) == IF Has(d, k) THEN d[k] ELSE default
Put(d, k, v) == [x \in DOMAIN d \cup {k} |-> IF x = k THEN v ELSE d[x]]
SetDefault(d, k, v) == IF Has(d, k) THEN d ELSE Put(d, k, v)

\* the bot entry without the Markdown conversion of the response
BotEntryRaw(raw_response) == [role |-> "bot", content |-> raw_response]

UserEntry(message) == [role |-> "user", content |-> markdown(message)]
BotEntry(raw_response) == [role |-> "bot", content |-> markdown(raw_response)]

\* a reset on a clear request only: a changed URL keeps the old chat
ResetOnClearOnly(current_session_url, url, clear_chat) == clear_chat

\* the condition under which handle_chat resets the chat
ResetNeeded(current_session_url, url, clear_chat) ==
    current_session_url # url \/ clear_chat

\* the exceptions the first except clause of handle_chat names
Caught(exc) ==
    \/ isinstance(exc, "ConnectionSetupError")
    \/ isinstance(exc, "ConnectionError")
    \/ isinstance(exc, "PredictionError")

\* a last except clause that catches everything, interrupts included
UnexpectedBare(exc) == isinstance(exc, "BaseException")

\* the exceptions the last except clause of the handlers catches
Unexpected(exc) == isinstance(exc, "Exception")

\* What one /chat request does to the session it finds.  c and p are the
\* transport's answers to the constructor call and to the predict call.  An
\* exception that no except clause catches ends the request without a
\* response, and the cookie session then stays as the request found it.
Done(sess, how, did_reset, url, message, clear_chat, response) ==
    [session |-> sess, outcome |-> how, reset |-> did_reset,
     request |-> [url |-> url, message |-> message, clear_chat |-> clear_chat],
     response |-> response, io |-> << >>]

\* handle_chat up to the input validation: session set-up, reset on a URL
\* change or a clear request, and the early returns.  Outcome "process"
\* stands for falling through to the try block.
chat_prologue(sess, form) ==
    LET url == strip(Get(form, "url", DEFAULT_GRADIO_URL))
        message == strip(Get(form, "message", <<>>))
        clear_chat == Has(form, "clear_chat")
        s1 == SetDefault(sess, SESSION_CHAT_URL_KEY, url)
        s2 == SetDefault(s1, SESSION_CHAT_HISTORY_KEY, <<>>)
        s3 == SetDefault(s2, SESSION_UNIQUE_ID_KEY, <<"uuid4">>)
        current_session_url == s3[SESSION_CHAT_URL_KEY]
        did_reset == ResetNeeded(current_session_url, url, clear_chat)
        s4 == IF did_reset
              THEN Put(Put(s3, SESSION_CHAT_HISTORY_KEY, <<>>), SESSION_CHAT_URL_KEY, url)
              ELSE s3
        End(how) == Done(s4, how, did_reset, url, message, clear_chat, <<>>)
    IN  IF did_reset /\ clear_chat THEN End("cleared")
        ELSE IF url = <<>> THEN End("empty_url")
        ELSE IF message = <<>> THEN End("empty_message")
        ELSE End("process")

\* a failed request that records an error text as the bot's answer
FailedSessionWithBot(s5) ==
    Put(s5, SESSION_CHAT_HISTORY_KEY,
        Append(s5[SESSION_CHAT_HISTORY_KEY], [role |-> "bot", content |-> <<"E">>]))

\* the session after an except clause of handle_chat ran: the clauses flash
\* and log, and leave the session as the try block left it
FailedSession(s5) == s5

\* The try block of handle_chat, on the session sess0 the request found and
\* the result pre of the prologue.
chat_process(sess0, pre, c, p) ==
    LET message == pre.request.message
        s5 == Put(pre.session, SESSION_CHAT_HISTORY_KEY,
                  Append(pre.session[SESSION_CHAT_HISTORY_KEY], UserEntry(message)))
        url == s5[SESSION_CHAT_URL_KEY]
        conn == connect_client(url, Stream(c))
        q == query_hunyuan_model(message, conn.client, GRADIO_API_ENDPOINT, Stream(p))
        raw_response == q.value.s
        s6 == Put(s5, SESSION_CHAT_HISTORY_KEY,
                  Append(s5[SESSION_CHAT_HISTORY_KEY], BotEntry(raw_response)))
        io1 == ConnectEvents(url, Stream(c), conn)
        io2 == io1 \o PredictEvents(message, conn.client, Stream(p), q)
        End(s, how, ev) == [pre EXCEPT !.session = s, !.outcome = how, !.io = ev]
        Abort(ev) == [pre EXCEPT !.session = sess0, !.outcome = "aborted",
                                 !.reset = FALSE, !.io = ev]
    IN  IF conn.raised
        THEN IF Caught(conn.exc) THEN End(FailedSession(s5), "connect_failed", io1)
             ELSE IF Unexpected(conn.exc) THEN End(FailedSession(s5), "unexpected", io1)
             ELSE Abort(io1)
        ELSE IF q.raised
        THEN IF Caught(q.exc) THEN End(FailedSession(s5), "query_failed", io2)
             ELSE IF Unexpected(q.exc) THEN End(FailedSession(s5), "unexpected", io2)
             ELSE Abort(io2)
        ELSE [pre EXCEPT !.session = s6, !.outcome = "ok", !.response = raw_response,
                         !.io = io2]

handle_chat(sess, form, c, p) ==
    LET pre == chat_prologue(sess, form)
    IN  IF pre.outcome = "process" THEN chat_process(sess, pre, c, p) ELSE pre

ChatHistory(sess) == Get(sess, SESSION_CHAT_HISTORY_KEY, <<>>)
Copies(n, x) == [i \in 1..n |-> x]
FailedSubmit(how) == how \in {"connect_failed", "query_failed", "unexpected"}

\* The session and the bookkeeping after a request that ended as r, while
\* the chat history has at most bound entries.
CommitUpTo(r, bound) ==
    LET grown == Len(ChatHistory(r.session)) -
                 (IF r.reset THEN 0 ELSE Len(ChatHistory(session)))
    IN  /\ Len(ChatHistory(r.session)) <= bound
        /\ session' = r.session
        /\ request' = r.request
        /\ outcome' = r.outcome
        /\ was_reset' = r.reset
        /\ hist_by' = (IF r.reset THEN <<>> ELSE hist_by) \o Copies(grown, r.request.url)
        /\ turns' = (IF r.reset THEN <<>> ELSE turns) \o
                    (IF r.outcome = "ok"
                     THEN <<[query |-> r.request.message, response |-> r.response]>>
                     ELSE <<>>)
        /\ clean' = ((r.reset \/ clean) /\ ~FailedSubmit(r.outcome))
        /\ rendered' = PyNone
        /\ io' = r.io

\* One /chat request of the browser that owns the session.  The transport
\* is asked only when the request reaches the try block.
HandleChatUpTo(bound) ==
    \E form \in Forms :
        IF chat_prologue(session, form).outcome # "process"
        THEN CommitUpTo(handle_chat(session, form, Ok(PyNone), Ok(PyNone)), bound)
        ELSE \E c \in WebCtorOutcomes :
             \E p \in IF c.ok THEN WebPredictOutcomes ELSE {Ok(PyNone)} :
                 CommitUpTo(handle_chat(session, form, c, p), bound)

HandleChat == HandleChatUpTo(MaxHist)

Next ==
    \/ HandleChat /\ UNCHANGED <<call, cli, two, runner>>

Spec == Init /\ [][Next]_vars

\* ---------------------------------------------------------- /ask and index
Remove(d, k) == [x \in DOMAIN d \ {k} |-> d[x]]

\* What one /ask request does to the session it finds.
handle_ask(sess, form, c, p) ==
    LET url == strip(Get(form, "url", DEFAULT_GRADIO_URL))
        message == strip(Get(form, "message", <<>>))
        s1 == SetDefault(sess, SESSION_UNIQUE_ID_KEY, <<"uuid4">>)
        conn == connect_client(url, Stream(c))
        q == query_hunyuan_model(message, conn.client, GRADIO_API_ENDPOINT, Stream(p))
        raw_response == q.value.s
        s2 == Put(s1, SESSION_ASK_RESPONSE_KEY, markdown(raw_response))
        io1 == ConnectEvents(url, Stream(c), conn)
        io2 == io1 \o PredictEvents(message, conn.client, Stream(p), q)
        End(s, how, ev) ==
            [Done(s, how, FALSE, url, message, FALSE, <<>>) EXCEPT !.io = ev]
    IN  IF url = <<>> THEN End(sess, "ask_empty_url", << >>)
        ELSE IF message = <<>> THEN End(sess, "ask_empty_message", << >>)
        ELSE IF conn.raised
        THEN IF Caught(conn.exc) THEN End(s1, "ask_connect_failed", io1)
             ELSE IF Unexpected(conn.exc) THEN End(s1, "ask_unexpected", io1)
             ELSE End(sess, "ask_aborted", io1)
        ELSE IF q.raised
        THEN IF Caught(q.exc) THEN End(s1, "ask_query_failed", io2)
             ELSE IF Unexpected(q.exc) THEN End(s1, "ask_unexpected", io2)
             ELSE End(sess, "ask_aborted", io2)
        ELSE End(s2, "ask_ok", io2)

AskForms == {f \in Forms : ~Has(f, "clear_chat")}
AsksTransport(form) ==
    /\ strip(Get(form, "url", DEFAULT_GRADIO_URL)) # <<>>
    /\ strip(Get(form, "message", <<>>)) # <<>>

\* The session after a request that does not touch the chat.
CommitOther(sess, req, how, shown, ev) ==
    /\ session' = sess
    /\ request' = req
    /\ outcome' = how
    /\ was_reset' = FALSE
    /\ rendered' = shown
    /\ io' = ev
    /\ UNCHANGED <<hist_by, turns, clean>>

\* One /ask request of the browser that owns the session.
HandleAsk ==
    \E form \in AskForms :
        IF ~AsksTransport(form)
        THEN LET r == handle_ask(session, form, Ok(PyNone), Ok(PyNone))
             IN  CommitOther(r.session, r.request, r.outcome, PyNone, r.io)
        ELSE \E c \in WebCtorOutcomes :
             \E p \in IF c.ok THEN WebPredictOutcomes ELSE {Ok(PyNone)} :
                 LET r == handle_ask(session, form, c, p)
                 IN  CommitOther(r.session, r.request, r.outcome, PyNone, r.io)

\* index with session.get in place of session.pop
index_keep(sess) ==
    [session |-> sess,
     ask_response |-> IF Has(sess, SESSION_ASK_RESPONSE_KEY)
                      THEN PyStr(sess[SESSION_ASK_RESPONSE_KEY]) ELSE PyNone]

\* What one GET / does: it pops the 'ask' response and renders it.
index(sess) ==
    [session |-> Remove(sess, SESSION_ASK_RESPONSE_KEY),
     ask_response |-> IF Has(sess, SESSION_ASK_RESPONSE_KEY)
                      THEN PyStr(sess[SESSION_ASK_RESPONSE_KEY]) ELSE PyNone]

Index ==
    LET r == index(session)
    IN  CommitOther(r.session, NoRequest, "index", r.ask_response, << >>)

NextWeb ==
    \/ HandleChatUpTo(MaxHistApp) /\ UNCHANGED <<call, cli, two, runner>>
    \/ HandleAsk /\ UNCHANGED <<call, cli, two, runner>>
    \/ Index /\ UNCHANGED <<call, cli, two, runner>>

SpecWeb == Init /\ [][NextWeb]_vars

\* ------------------------------------------------------------- command line
\* str.lower() on the letters of ASCII
UpperCase == <<"A", "B", "C", "D", "E", "F", "G", "H", "I", "J", "K", "L", "M",
               "N", "O", "P", "Q", "R", "S", "T", "U", "V", "W", "X", "Y", "Z">>
LowerCase == <<"a", "b", "c", "d", "e", "f", "g", "h", "i", "j", "k", "l", "m",
               "n", "o", "p", "q", "r", "s", "t", "u", "v", "w", "x", "y", "z">>
lower(s) ==
    [i \in 1..Len(s) |->
        IF \E k \in 1..Len(UpperCase) : UpperCase[k] = s[i]
        THEN LowerCase[CHOOSE k \in 1..Len(UpperCase) : UpperCase[k] = s[i]]
        ELSE s[i]]

\* what console.input() or input() hands to a loop
Line(text) == [kind |-> "line", text |-> text]
EOFError == [kind |-> "EOFError", text |-> <<>>]
KeyboardInterrupt == [kind |-> "KeyboardInterrupt", text |-> <<>>]

ChatLines == {<<>>, <<" ">>, <<"E", "x", "i", "t">>, <<" ", "q", "u", "i", "t">>,
              <<"e", "x", "i", "t", "s">>, <<" ", "x">>}
ChatInputs == {Line(t) : t \in ChatLines} \cup {EOFError, KeyboardInterrupt}
ShellInputs == {Line(<<" ", "x">>), Line(<<"e", "x", "i", "t">>), EOFError, KeyboardInterrupt}
AskMessages == {<<>>, <<"x">>}
ShellMessages == {PyNone, PyStr(<<>>), PyStr(<<"x">>)}
CliCtorOutcomes ==
    {Ok(PyNone), Fails("ValueError"), Fails("TimeoutError"), Fails("KeyboardInterrupt")}
CliPredictOutcomes ==
    {Ok(PyStr(<<"h", "i">>)), Ok(PyNone),
     Fails("ConnectionResetError"), Fails("TimeoutError"), Fails("KeyboardInterrupt")}
\* console.print(...) or print(...) of a response, and output_file.write_text
DisplayOutcomes == {Ok(PyNone), Fails("ValueError")}
WriteOutcomes == {Ok(PyNone), Fails("PermissionError"), Fails("ValueError")}

\* The exit code of a process that exc leaves ("-": the command returned).
\* typer.Exit(code=1) and sys.exit(1) carry their code; an exception nobody
\* caught ends the process with a non-zero code of the runtime's choice.
ExitCodes(exc) == CASE exc = "-" -> {0}
                    [] exc \in {"Exit", "SystemExit"} -> {1}
                    [] exc = "KeyboardInterrupt" -> {1, 130}
                    [] OTHER -> {1}

\* _initialize_client that reports a failed connect and hands back no client
initialize_client_no_exit(url, outs) ==
    LET conn == connect_client(url, outs) IN
    IF ~conn.raised THEN conn
    ELSE IF isinstance(conn.exc, "Exception") THEN ReturnClient(NoClient, conn.rest)
    ELSE conn

\* cli/main.py _initialize_client
initialize_client(url, outs) ==
    LET conn == connect_client(url, outs) IN
    IF ~conn.raised THEN conn
    ELSE IF isinstance(conn.exc, "ConnectionSetupError") THEN Raise("Exit", "-", conn.rest)
    ELSE IF isinstance(conn.exc, "Exception") THEN Raise("Exit", "-", conn.rest)
    ELSE conn

\* hunyuan.py _connect_client
hunyuan_connect_client(url, outs) ==
    LET r == Head(outs) IN
    IF r.ok THEN ReturnClient(GradioClient(url), Tail(outs))
    ELSE IF isinstance(r.exc, "Exception") THEN Raise("Exit", "-", Tail(outs))
    ELSE Raise(r.exc, "-", Tail(outs))

\* cli/main.py _query_with_progress
query_with_progress(message, client, api_endpoint, outs) ==
    LET response == query_hunyuan_model(message, client, api_endpoint, outs) IN
    IF response.raised THEN response
    ELSE Return(IF response.value # PyNone THEN PyStr(str(response.value)) ELSE PyStr(<<>>),
                response.rest)

\* the exit test of the chat loops without lower()
IsExitCommandExact(cleaned_message) ==
    cleaned_message \in {<<"e", "x", "i", "t">>, <<"q", "u", "i", "t">>}

IsExitCommand(cleaned_message) ==
    lower(cleaned_message) \in {<<"e", "x", "i", "t">>, <<"q", "u", "i", "t">>}

\* How one step of a command ends: the loop prompts again ("prompt"), the
\* command returns ("return") or exc leaves it ("raise"); ev are the
\* transport calls the step made.
Turn(next, did, ev, exc) == [next |-> next, did |-> did, io |-> ev, exc |-> exc]

\* the chat loop of cli/main.py with a break after a reported query error
main_chat_turn_break(inp, client, api_endpoint, p, d) ==
    LET message == inp.text
        cleaned_message == strip(message)
        response == query_with_progress(cleaned_message, client, api_endpoint, Stream(p))
        ev == PredictEvents(cleaned_message, client, Stream(p), response)
        e == IF response.raised THEN response.exc ELSE d.exc
    IN  IF inp.kind \in {"EOFError", "KeyboardInterrupt"}
        THEN Turn("return", "exiting", << >>, "-")
        ELSE IF IsExitCommand(cleaned_message) THEN Turn("return", "exiting", << >>, "-")
        ELSE IF cleaned_message = <<>> THEN Turn("prompt", "ignored", << >>, "-")
        ELSE IF e = "-" THEN Turn("prompt", "answered", ev, "-")
        ELSE IF isinstance(e, "ConnectionError") \/ isinstance(e, "PredictionError")
             THEN Turn("return", "query_error", ev, "-")
        ELSE IF isinstance(e, "Exception") THEN Turn("prompt", "unexpected_error", ev, "-")
        ELSE Turn("raise", "interrupted", ev, e)

\* cli/main.py chat: one iteration of the loop.  p is the outcome of the
\* predict call, d of printing the response.
main_chat_turn(inp, client, api_endpoint, p, d) ==
    LET message == inp.text
        cleaned_message == strip(message)
        response == query_with_progress(cleaned_message, client, api_endpoint, Stream(p))
        ev == PredictEvents(cleaned_message, client, Stream(p), response)
        e == IF response.raised THEN response.exc ELSE d.exc
    IN  IF inp.kind \in {"EOFError", "KeyboardInterrupt"}
        THEN Turn("return", "exiting", << >>, "-")
        ELSE IF IsExitCommand(cleaned_message) THEN Turn("return", "exiting", << >>, "-")
        ELSE IF cleaned_message = <<>> THEN Turn("prompt", "ignored", << >>, "-")
        ELSE IF e = "-" THEN Turn("prompt", "answered", ev, "-")
        ELSE IF isinstance(e, "ConnectionError") \/ isinstance(e, "PredictionError")
             THEN Turn("prompt", "query_error", ev, "-")
        ELSE IF isinstance(e, "Exception") THEN Turn("prompt", "unexpected_error", ev, "-")
        ELSE Turn("raise", "interrupted", ev, e)

\* hunyuan.py chat: one iteration of the loop
hunyuan_chat_turn(inp, client, p, d) ==
    LET message == inp.text
        cleaned_message == strip(message)
        response == hunyuan_query_hunyuan(cleaned_message, client, TRUE, Stream(p))
        ev == PredictEvents(cleaned_message, client, Stream(p), response)
        e == IF response.raised THEN response.exc ELSE d.exc
    IN  IF inp.kind \in {"EOFError", "KeyboardInterrupt"}
        THEN Turn("return", "exiting", << >>, "-")
        ELSE IF IsExitCommand(cleaned_message) THEN Turn("return", "exiting", << >>, "-")
        ELSE IF cleaned_message = <<>> THEN Turn("prompt", "ignored", << >>, "-")
        ELSE IF e = "-" THEN Turn("prompt", "answered", ev, "-")
        ELSE IF isinstance(e, "ConnectionError") THEN Turn("prompt", "api_call_error", ev, "-")
        ELSE IF isinstance(e, "RuntimeError") THEN Turn("prompt", "prediction_error", ev, "-")
        ELSE IF isinstance(e, "Exception") THEN Turn("prompt", "unexpected_error", ev, "-")
        ELSE Turn("raise", "interrupted", ev, e)

\* cli/main.py ask.  w is the outcome of writing output_file.
main_ask(message, url, api_endpoint, markdown_output, output_file, c, p, w, d) ==
    LET client == initialize_client(url, Stream(c))
        response == query_with_progress(message, client.client, api_endpoint, Stream(p))
        io1 == ConnectEvents(url, Stream(c), client)
        io2 == io1 \o PredictEvents(message, client.client, Stream(p), response)
        \* what leaves the try block of lines 224-246
        e == IF response.raised THEN response.exc
             ELSE IF output_file
                  THEN IF w.ok THEN "-"
                       ELSE IF isinstance(w.exc, "OSError") THEN "Exit" ELSE w.exc
             ELSE d.exc
    IN  IF client.raised
        THEN Turn("raise", "connect_failed", io1, client.exc)
        ELSE IF e = "-"
             THEN Turn("return", IF output_file THEN "saved"
                                 ELSE IF markdown_output THEN "printed_markdown"
                                 ELSE "printed_raw", io2, "-")
        ELSE IF isinstance(e, "ConnectionError") \/ isinstance(e, "PredictionError")
             THEN Turn("raise", "query_error", io2, "Exit")
        ELSE IF isinstance(e, "Exception") THEN Turn("raise", "unexpected_error", io2, "Exit")
        ELSE Turn("raise", "interrupted", io2, e)

\* hunyuan.py ask
hunyuan_ask(message, url, markdown_output, output_file, c, p, w, d) ==
    LET client == hunyuan_connect_client(url, Stream(c))
        response == hunyuan_query_hunyuan(message, client.client, TRUE, Stream(p))
        io1 == ConnectEvents(url, Stream(c), client)
        io2 == io1 \o PredictEvents(message, client.client, Stream(p), response)
        e == IF response.raised THEN response.exc
             ELSE IF output_file
                  THEN IF w.ok THEN "-"
                       ELSE IF isinstance(w.exc, "OSError") THEN "Exit" ELSE w.exc
             ELSE d.exc
    IN  IF client.raised
        THEN Turn("raise", "connect_failed", io1, client.exc)
        ELSE IF e = "-"
             THEN Turn("return", IF output_file THEN "saved"
                                 ELSE IF markdown_output THEN "printed_markdown"
                                 ELSE "printed_raw", io2, "-")
        ELSE IF isinstance(e, "ConnectionError") THEN Turn("raise", "api_call_error", io2, "Exit")
        ELSE IF isinstance(e, "RuntimeError") THEN Turn("raise", "prediction_error", io2, "Exit")
        ELSE IF isinstance(e, "Exception") THEN Turn("raise", "unexpected_error", io2, "Exit")
        ELSE Turn("raise", "interrupted", io2, e)

\* bool(args.message) of hunyuan_shell.py
Truthy(v) == v # PyNone /\ v.s # <<>>

\* hunyuan_shell.py main, up to the command loop.  args holds the parsed
\* --url, --message and --interactive.
shell_main(args, c, p, d) ==
    LET r == Head(Stream(c))
        client == IF r.ok THEN ReturnClient(GradioClient(args.url), Tail(Stream(c)))
                  ELSE IF isinstance(r.exc, "Exception")
                       THEN Raise("SystemExit", "-", Tail(Stream(c)))
                  ELSE Raise(r.exc, "-", Tail(Stream(c)))
        result == shell_query_hunyuan(args.message.s, client.client, Stream(p))
        io1 == ConnectEvents(args.url, Stream(c), client)
        io2 == io1 \o PredictEvents(args.message.s, client.client, Stream(p), result)
    IN  IF client.raised THEN Turn("raise", "connect_failed", io1, client.exc)
        ELSE IF args.interactive THEN Turn("prompt", "cmdloop", io1, "-")
        ELSE IF Truthy(args.message)
             THEN IF result.raised THEN Turn("raise", "traceback", io2, result.exc)
                  ELSE IF ~d.ok THEN Turn("raise", "traceback", io2, d.exc)
                  ELSE Turn("return", "printed", io2, "-")
        ELSE Turn("return", "help", io1, "-")

\* hunyuan_shell.py HunyuanShell: one command of cmdloop().  A line whose
\* command word is 'exit' goes to do_exit(arg), which takes no arg; any
\* other line, 'EOF' at the end of input included, goes to default.
shell_turn(inp, client, p, d) ==
    LET line == IF inp.kind = "EOFError" THEN <<"E", "O", "F">> ELSE inp.text
        message == strip(line)
        result == shell_query_hunyuan(message, client, Stream(p))
        ev == PredictEvents(message, client, Stream(p), result)
        e == IF result.raised THEN result.exc ELSE d.exc
    IN  IF inp.kind = "KeyboardInterrupt" THEN Turn("raise", "traceback", << >>, "KeyboardInterrupt")
        ELSE IF message = <<"e", "x", "i", "t">> THEN Turn("raise", "traceback", << >>, "TypeError")
        ELSE IF e = "-" THEN Turn("return", "printed", ev, "-")
        ELSE IF isinstance(e, "Exception") THEN Turn("prompt", "query_error", ev, "-")
        ELSE Turn("raise", "traceback", ev, e)

\* A command starts: the process has the transport calls of its start.
Started(prog, input, client, t) ==
    \E code \in ExitCodes(t.exc) :
        /\ cli' = [prog |-> prog, pc |-> IF t.next = "prompt" THEN "prompt" ELSE "exited",
                   client |-> IF t.next = "prompt" THEN client ELSE NoClient,
                   code |-> code, did |-> t.did, input |-> input]
        /\ io' = t.io
        /\ UNCHANGED <<call, webOnly, two, runner>>

\* A loop has taken one input.
Stepped(inp, t) ==
    \E code \in ExitCodes(t.exc) :
        /\ cli' = [cli EXCEPT !.pc = IF t.next = "prompt" THEN "prompt" ELSE "exited",
                              !.code = code, !.did = t.did, !.input = inp]
        /\ io' = io \o t.io
        /\ UNCHANGED <<call, webOnly, two, runner>>

\* cli/main.py chat and hunyuan.py chat, up to the first prompt
StartChat ==
    /\ cli = NoProc
    /\ \E prog \in {"main.chat", "hunyuan.chat"}, url \in Targets, c \in CliCtorOutcomes :
          LET client == IF prog = "main.chat" THEN initialize_client(url, Stream(c))
                        ELSE hunyuan_connect_client(url, Stream(c))
              ev == ConnectEvents(url, Stream(c), client)
          IN  Started(prog, NoInput, client.client,
                      IF client.raised THEN Turn("raise", "connect_failed", ev, client.exc)
                      ELSE Turn("prompt", "connected", ev, "-"))

\* one input at the prompt of a chat loop
ChatTurn ==
    /\ cli.pc = "prompt"
    /\ cli.prog \in {"main.chat", "hunyuan.chat"}
    /\ Len(io) <= MaxTurns
    /\ \E inp \in ChatInputs, p \in CliPredictOutcomes, d \in DisplayOutcomes :
          Stepped(inp, IF cli.prog = "main.chat"
                       THEN main_chat_turn(inp, cli.client, GRADIO_API_ENDPOINT, p, d)
                       ELSE hunyuan_chat_turn(inp, cli.client, p, d))

\* cli/main.py ask and hunyuan.py ask
RunAsk ==
    /\ cli = NoProc
    /\ \E prog \in {"main.ask", "hunyuan.ask"}, message \in AskMessages, url \in Targets,
          markdown_output \in BOOLEAN, output_file \in BOOLEAN :
       \E c \in CliCtorOutcomes, p \in CliPredictOutcomes, w \in WriteOutcomes,
          d \in DisplayOutcomes :
          Started(prog, Line(message), NoClient,
                  IF prog = "main.ask"
                  THEN main_ask(message, url, GRADIO_API_ENDPOINT, markdown_output,
                                output_file, c, p, w, d)
                  ELSE hunyuan_ask(message, url, markdown_output, output_file, c, p, w, d))

\* hunyuan_shell.py main
ShellArgs == [url : Targets, message : ShellMessages, interactive : BOOLEAN]
RunShell ==
    /\ cli = NoProc
    /\ \E args \in ShellArgs, c \in CliCtorOutcomes, p \in CliPredictOutcomes,
          d \in DisplayOutcomes :
          Started(IF args.interactive THEN "shell.interactive" ELSE "shell.message",
                  [kind |-> IF args.message = PyNone THEN "no_message" ELSE "message",
                   text |-> args.message.s],
                  GradioClient(args.url), shell_main(args, c, p, d))

\* one command at the prompt of HunyuanShell
ShellTurn ==
    /\ cli.pc = "prompt"
    /\ cli.prog = "shell.interactive"
    /\ Len(io) <= MaxTurns
    /\ \E inp \in ShellInputs, p \in CliPredictOutcomes, d \in DisplayOutcomes :
          Stepped(inp, shell_turn(inp, cli.client, p, d))

NextCli ==
    \/ StartChat
    \/ ChatTurn
    \/ RunAsk
    \/ RunShell
    \/ ShellTurn

SpecCli == Init /\ [][NextCli]_vars

\* A process is either the web application or one command of a command line.
NextApp ==
    \/ cli = NoProc /\ NextWeb
    \/ outcome = "-" /\ NextCli

SpecApp == Init /\ [][NextApp]_vars

\* ------------------------------------------------------------- web properties
Bound(sess) == Has(sess, SESSION_CHAT_URL_KEY)
ChatUrl(sess) == sess[SESSION_CHAT_URL_KEY]

\* C1: when the connect or the dispatch of a submit fails, the session's
\* chat history is the same, in length and content, after the request as
\* before it.
C1_FailedSubmitKeepsTranscript ==
    [][(/\ Bound(session)
        /\ request'.url = ChatUrl(session)
        /\ ~request'.clear_chat
        /\ outcome' \in {"connect_failed", "query_failed"})
       => ChatHistory(session') = ChatHistory(session)]_vars

\* C2: a request that rebinds a session bound to T1 to another target T2
\* either connects, and then the session is bound to T2 with nothing of the
\* old transcript, or fails to connect, and then the session is bound to T1
\* with its transcript as before.
C2_RebindAllOrNothing ==
    [][(/\ Bound(session)
        /\ request'.url # ChatUrl(session)
        /\ ~request'.clear_chat
        /\ request'.url # <<>>
        /\ request'.message # <<>>
        /\ outcome' # "aborted")
       => \/ /\ outcome' \in {"ok", "query_failed"}
             /\ ChatUrl(session') = request'.url
             /\ Len(ChatHistory(session')) <= 2
          \/ /\ outcome' = "connect_failed"
             /\ ChatUrl(session') = ChatUrl(session)
             /\ ChatHistory(session') = ChatHistory(session)]_vars

\* C3: after N successful submits in sequence since the chat was last reset,
\* the history holds N exchanges, and the i-th pairs the i-th query submitted
\* with the response of the i-th dispatch, as rendered, in call order.
C3_TranscriptOrdering ==
    clean =>
        /\ Len(ChatHistory(session)) = 2 * Len(turns)
        /\ \A i \in 1..Len(turns) :
              /\ ChatHistory(session)[2 * i - 1] =
                    [role |-> "user", content |-> markdown(turns[i].query)]
              /\ ChatHistory(session)[2 * i] =
                    [role |-> "bot", content |-> markdown(turns[i].response)]

C3_Witness ==
    /\ clean
    /\ outcome = "ok"
    /\ Len(turns) = 2
    /\ turns[1].query # turns[2].query
    /\ turns[1].response # turns[2].response

\* C8: a clear request on a bound session leaves an empty chat history and
\* the target the session had, whatever URL the request carries.
C8_ClearKeepsTarget ==
    [][(Bound(session) /\ outcome' = "cleared")
       => /\ ChatHistory(session') = <<>>
          /\ ChatUrl(session') = ChatUrl(session)]_vars

\* C9: every entry of the chat history was appended by a request whose URL
\* is the session's current chat URL.
C9_HistoryOfCurrentTarget ==
    /\ Len(hist_by) = Len(ChatHistory(session))
    /\ \A i \in 1..Len(hist_by) : hist_by[i] = ChatUrl(session)

C9_Witness ==
    /\ was_reset
    /\ ~request.clear_chat
    /\ outcome = "ok"
    /\ Len(ChatHistory(session)) = 2
    /\ hist_by = <<request.url, request.url>>

\* C14: a submit interrupted while the connect or the remote call is in
\* flight leaves the chat history exactly as it was before the request.
Interrupted(ev) == ev # << >> /\ ev[Len(ev)].exc = "KeyboardInterrupt"
C14_InterruptKeepsTranscript ==
    [][Interrupted(io') => ChatHistory(session') = ChatHistory(session)]_vars

C14_Witness ==
    /\ outcome = "aborted"
    /\ Len(io) = 2
    /\ io[2].op = "predict"
    /\ Interrupted(io)
    /\ Len(ChatHistory(session)) = 2

\* C17: a stored 'ask' response stays in the session until the next index
\* request, which renders it and removes it, so that an index request renders
\* a response only if a handle_ask stored one since the index before.
AskResponse(sess) ==
    IF Has(sess, SESSION_ASK_RESPONSE_KEY)
    THEN PyStr(sess[SESSION_ASK_RESPONSE_KEY]) ELSE PyNone
C17_AskResponseShownOnce ==
    [][/\ outcome' = "index" =>
            /\ rendered' = AskResponse(session)
            /\ AskResponse(session') = PyNone
       /\ (outcome' # "index" /\ outcome' # "ask_ok") =>
            /\ rendered' = PyNone
            /\ AskResponse(session') = AskResponse(session)
       /\ outcome' = "ask_ok" =>
            /\ rendered' = PyNone
            /\ AskResponse(session') # PyNone]_vars

C17_Witness ==
    /\ outcome = "index"
    /\ rendered = PyStr(markdown(<<"h", "i">>))
    /\ AskResponse(session) = PyNone

\* C18: a /chat request with an empty or blank message and no clear_chat
\* flag leaves the chat history as it was.
C18_EmptyMessageKeepsHistory ==
    [][(/\ outcome' \in {"empty_message", "empty_url"}
        /\ request'.message = <<>>
        /\ ~request'.clear_chat)
       => ChatHistory(session') = ChatHistory(session)]_vars

\* C19: when the connect or the query of a /chat request fails, the number
\* of bot entries of the chat history after the request equals the number
\* before it.
BotCount(h) == Cardinality({i \in 1..Len(h) : h[i].role = "bot"})
ChatFailed(how) == how \in {"connect_failed", "query_failed"}
AskOutcomes ==
    {"ask_empty_url", "ask_empty_message", "ask_connect_failed", "ask_query_failed",
     "ask_unexpected", "ask_aborted", "ask_ok"}
ChatState(sess) ==
    [bound |-> Has(sess, SESSION_CHAT_URL_KEY),
     url |-> Get(sess, SESSION_CHAT_URL_KEY, <<>>),
     started |-> Has(sess, SESSION_CHAT_HISTORY_KEY),
     history |-> ChatHistory(sess)]
C23_AskKeepsConversation ==
    [][outcome' \in AskOutcomes =>
        /\ ChatState(session') = ChatState(session)
        /\ outcome' \in {"ask_empty_url", "ask_empty_message"} =>
              /\ io' = << >>
              /\ AskResponse(session') = AskResponse(session)
              /\ session' = session]_vars

C23_Witness ==
    /\ outcome = "ask_empty_message"
    /\ AskResponse(session) = PyStr(markdown(<<"h", "i">>))
    /\ Len(ChatHistory(session)) = 2
    /\ ChatUrl(session) = <<"a">>

\* C24: the chat URL of a web session is never the empty string, whatever
\* URL fields the /chat requests carried, and no connect call is made with
\* an empty target.
C24_ChatUrlNeverEmpty ==
    /\ Bound(session) => ChatUrl(session) # <<>>
    /\ \A i \in 1..Len(io) : io[i].op = "connect" => io[i].url # <<>>

\* C25: the chat history alternates 'user' and 'bot' entries, starting
\* with 'user': a 'bot' entry follows the 'user' entry of its request, and
\* a 'user' entry that is not the last one is followed by its 'bot' entry.
C25_HistoryAlternates ==
    \A i \in 1..Len(ChatHistory(session)) :
        ChatHistory(session)[i].role = IF i % 2 = 1 THEN "user" ELSE "bot"

\* ------------------------------------------------------------ two sessions
\* flask.session is the cookie session of the request's browser: a handler
\* works on the session its request carries, and the response replaces the
\* cookie of that browser.  Requests of two browsers run on the threads of
\* the server and overlap; one browser sends its requests one by one.
TwoChatForms ==
    {FormOf({"message"}, <<>>, <<"y">>),
     FormOf({"url", "message"}, <<"a", " ">>, <<" ", "x">>),
     FormOf({"clear_chat"}, <<>>, <<>>)}
TwoAskForms == {FormOf({"url", "message"}, <<"a", " ">>, <<"y">>)}
TwoCtorOutcomes == {Ok(PyNone), Fails("ValueError")}
TwoPredictOutcomes == {Ok(PyStr(<<"h", "i">>)), Fails("TimeoutError")}

LoadSession(store, who) == store[who]

\* a session kept in one variable of the server process
SaveSessionGlobal(store, who, s) == [b \in DOMAIN store |-> s]

SaveSession(store, who, s) == [store EXCEPT ![who] = s]

\* the session a handler leaves: that of its response, or the one the
\* request carried when an exception ended the request without a response
Handled(route, sess, form, c, p) ==
    IF route = "/chat" THEN handle_chat(sess, form, c, p).session
    ELSE handle_ask(sess, form, c, p).session

\* A browser sends a request and a thread of the server handles it.  solo
\* is what the same request makes of browser A's session in a run where
\* browser B sends nothing.
TwoBegin ==
    \E who \in Browsers, route \in {"/chat", "/ask"} :
    \E form \in IF route = "/chat" THEN TwoChatForms ELSE TwoAskForms :
    \E c \in TwoCtorOutcomes, p \in TwoPredictOutcomes :
        LET s == Handled(route, LoadSession(two.sessions, who), form, c, p)
        IN  /\ ~two.inflight[who].pending
            /\ Len(ChatHistory(s)) <= MaxHistTwo
            /\ two' = [two EXCEPT !.inflight[who] =
                          [pending |-> TRUE, session |-> s,
                           solo |-> IF who = "A" THEN Handled(route, two.solo, form, c, p)
                                    ELSE << >>]]
            /\ UNCHANGED <<call, webVars, cli, runner>>

\* The response of a request reaches its browser.
TwoFinish ==
    \E who \in Browsers :
        /\ two.inflight[who].pending
        /\ two' = [two EXCEPT
                     !.sessions = SaveSession(two.sessions, who, two.inflight[who].session),
                     !.inflight[who] = NoReply,
                     !.solo = IF who = "A" THEN two.inflight[who].solo ELSE two.solo,
                     !.overlap = two.overlap \/ (who = "B" /\ two.inflight["A"].pending)]
        /\ UNCHANGED <<call, webVars, cli, runner>>

NextTwo ==
    \/ TwoBegin
    \/ TwoFinish

SpecTwo == Init /\ [][NextTwo]_vars

ChatProgs == {"main.chat", "hunyuan.chat"}
AtChatPrompt == cli.pc = "prompt" /\ cli.prog \in ChatProgs
\* the transport calls of the step
NewEvents == [i \in 1..(Len(io') - Len(io)) |-> io'[Len(io) + i]]

\* C11: within one conversation on an unchanged target the handle is
\* created once, and a submit makes no connect: an input of the CLI chat
\* loop makes predict calls on the loop's client only, and a /chat submit
\* that follows an answered submit on the same URL makes no connect call.
AnsweredBefore(h) == h # <<>> /\ h[Len(h)].role = "bot"
C11_SubmitNeverConnects ==
    [][/\ AtChatPrompt =>
            \A i \in 1..Len(NewEvents) :
                NewEvents[i].op = "predict" /\ NewEvents[i].client = cli.client
       /\ (/\ outcome' \in {"ok", "connect_failed", "query_failed"}
           /\ ~was_reset'
           /\ AnsweredBefore(ChatHistory(session)))
          => \A i \in 1..Len(io') : io'[i].op # "connect"]_vars

\* C12: a query of a chat loop that fails with an exception of class
\* Exception, or whose response cannot be printed, is reported, and the
\* loop prompts again with the client it had; all queries of one loop go
\* to the client the connect returned.
QueryFailedIn(ev) ==
    /\ Len(ev) = 1
    /\ ~ev[1].ok
    /\ isinstance(ev[1].exc, "Exception")
ErrorReports ==
    {"query_error", "api_call_error", "prediction_error", "unexpected_error"}
C12_QueryFailureKeepsLoop ==
    [][AtChatPrompt =>
        /\ (QueryFailedIn(NewEvents) \/ cli'.did \in ErrorReports) =>
                /\ cli'.pc = "prompt"
                /\ cli'.client = cli.client
                /\ cli'.did \in ErrorReports
        /\ \A i \in 2..Len(io') :
                io'[i].op = "predict" /\ io'[i].client = io'[1].client]_vars

C12_Witness ==
    /\ AtChatPrompt
    /\ Len(io) = 3
    /\ ~io[2].ok /\ io[2].exc = "TimeoutError"
    /\ io[3].ok /\ io[3].client = io[1].client
    /\ cli.did = "answered"

\* C13: a one-shot invocation ends with exit code 0 only when the connect
\* and the query both succeeded and the response was printed or saved, and
\* with a non-zero code when the connect, the query or the output failed.
OneShot ==
    /\ cli.pc = "exited"
    /\ \/ cli.prog \in {"main.ask", "hunyuan.ask"}
       \/ cli.prog = "shell.message" /\ cli.input.kind = "message"
Delivered == cli.did \in {"saved", "printed", "printed_markdown", "printed_raw"}
C13_OneShotExitCodes ==
    OneShot =>
        /\ cli.code = 0 =>
                /\ Len(io) = 2
                /\ io[1].op = "connect" /\ io[1].ok
                /\ io[2].op = "predict" /\ io[2].ok
                /\ Delivered
        /\ ((\E i \in 1..Len(io) : ~io[i].ok) \/ ~Delivered) => cli.code # 0

\* C16: in every entry point a predict call is made on the client of a
\* successful connect call made earlier in the same invocation, and an
\* invocation whose connect call failed makes no predict call.
C16_QueryOnlyAfterConnect ==
    /\ \A i \in 1..Len(io) :
          io[i].op = "predict" =>
              \E j \in 1..(i - 1) :
                  io[j].op = "connect" /\ io[j].ok /\ io[j].client = io[i].client
    /\ (\E j \in 1..Len(io) : io[j].op = "connect" /\ ~io[j].ok) =>
          \A i \in 1..Len(io) : io[i].op # "predict"

C16_Witness ==
    /\ cli.prog = "shell.interactive"
    /\ Len(io) = 3
    /\ io[1].op = "connect" /\ io[1].ok
    /\ io[2].op = "predict" /\ ~io[2].ok
    /\ io[3].op = "predict" /\ io[3].client = io[1].client

\* C20: in the CLI chat loops an input that is empty after strip() makes
\* no dispatch and the loop prompts again; 'exit' or 'quit' in any letter
\* case, EOF and an interrupt at the prompt end the loop without a
\* dispatch; every other input makes exactly one dispatch, of the stripped
\* message.
ExitWords == {<<"e", "x", "i", "t">>, <<"q", "u", "i", "t">>}
C20_ChatInputHandling ==
    [][AtChatPrompt =>
        LET inp == cli'.input
            cleaned == strip(inp.text)
        IN  IF inp.kind # "line" \/ lower(cleaned) \in ExitWords
            THEN Len(NewEvents) = 0 /\ cli'.pc = "exited" /\ cli'.code = 0
            ELSE IF cleaned = <<>>
            THEN Len(NewEvents) = 0 /\ cli'.pc = "prompt"
            ELSE /\ Len(NewEvents) = 1
                 /\ NewEvents[1].op = "predict"
                 /\ NewEvents[1].message = cleaned]_vars

C20_Witness ==
    /\ cli.prog = "main.chat"
    /\ cli.pc = "exited" /\ cli.code = 0
    /\ cli.input = Line(<<"E", "x", "i", "t">>)
    /\ Len(io) = 2
    /\ io[2].message = <<"x">>

\* C21: the command loop of HunyuanShell prompts again after every handled
\* message, whether its query succeeded or failed, and ends only on
\* 'exit', normally and with exit code 0.
AtShellPrompt == cli.pc = "prompt" /\ cli.prog = "shell.interactive"
C21_ShellLoopContinues ==
    [][AtShellPrompt =>
        LET inp == cli'.input IN
        IF inp.kind = "line" /\ strip(inp.text) = <<"e", "x", "i", "t">>
        THEN cli'.pc = "exited" /\ cli'.code = 0
        ELSE (Len(NewEvents) = 1 /\ ~Interrupted(NewEvents)) => cli'.pc = "prompt"]_vars

\* -------------------------------------------------------------- web runner
\* web/runner.py main: the runner starts Waitress as a child process, waits
\* for it and cleans up.  The child is a process of its own: it exits when
\* it chooses to, or when a signal the runner sent ends it.
SIGTERM == 15
SIGKILL == 9
ChildCodes == {0, 1, 2, 3}
ThreadCounts == {<<"4">>, <<"8">>}
PopenOutcomes ==
    {Ok(PyNone), Fails("FileNotFoundError"), Fails("PermissionError"),
     Fails("KeyboardInterrupt")}
\* the print calls between Popen and wait
BannerOutcomes == {Ok(PyNone), Fails("BrokenPipeError"), Fails("KeyboardInterrupt")}

\* sys.exit(code): the exit status is one byte
sys_exit(code) == code % 256

Exit(r, code, how) == [r EXCEPT !.pc = "exited", !.code = code, !.out = Append(@, how)]

\* process and process.poll() is None
Polled(r) == r.process /\ r.child = "running"

\* the except clauses with a Ctrl+C handler that only reports and exits
except_clauses_no_terminate(r, exc) ==
    IF isinstance(exc, "FileNotFoundError") THEN Exit(r, sys_exit(1), "command_not_found")
    ELSE IF isinstance(exc, "KeyboardInterrupt")
         THEN Exit([r EXCEPT !.out = Append(@, "ctrl_c")], sys_exit(0), "server_stopped")
    ELSE IF Polled(r)
         THEN Exit([r EXCEPT !.signals = @ \cup {SIGKILL}], sys_exit(1), "unexpected_error")
    ELSE Exit(r, sys_exit(1), "unexpected_error")

\* The except clauses of main, entered with exc raised in the try block.
\* After terminate() the Ctrl+C handler waits for the child ("grace").
except_clauses(r, exc) ==
    IF isinstance(exc, "FileNotFoundError") THEN Exit(r, sys_exit(1), "command_not_found")
    ELSE IF isinstance(exc, "KeyboardInterrupt")
         THEN IF Polled(r)
              THEN [r EXCEPT !.pc = "grace", !.signals = @ \cup {SIGTERM},
                             !.out = Append(@, "ctrl_c")]
              ELSE Exit([r EXCEPT !.out = Append(@, "ctrl_c")], sys_exit(0), "server_stopped")
    ELSE IF Polled(r)
         THEN Exit([r EXCEPT !.signals = @ \cup {SIGKILL}], sys_exit(1), "unexpected_error")
    ELSE Exit(r, sys_exit(1), "unexpected_error")

\* subprocess.Popen(waitress_cmd)
RunnerStart ==
    /\ runner.pc = "init"
    /\ \E threads \in ThreadCounts, o \in PopenOutcomes :
          LET r == [runner EXCEPT !.threads = threads] IN
          runner' = IF o.ok
                    THEN [r EXCEPT !.pc = "banner", !.process = TRUE, !.child = "running"]
                    ELSE except_clauses(r, o.exc)
    /\ UNCHANGED <<call, webVars, cli, two>>

\* the messages printed before the wait
RunnerBanner ==
    /\ runner.pc = "banner"
    /\ \E o \in BannerOutcomes :
          runner' = IF o.ok THEN [runner EXCEPT !.pc = "waiting"]
                    ELSE except_clauses(runner, o.exc)
    /\ UNCHANGED <<call, webVars, cli, two>>

\* exit_code = process.wait() returns
RunnerWaitReturns ==
    /\ runner.pc = "waiting"
    /\ runner.child = "exited"
    /\ LET exit_code == runner.returncode IN
       runner' = IF exit_code # 0 THEN Exit(runner, sys_exit(exit_code), "waitress_error")
                 ELSE Exit(runner, sys_exit(0), "returned")
    /\ UNCHANGED <<call, webVars, cli, two>>

\* Ctrl+C while process.wait() blocks
RunnerWaitInterrupted ==
    /\ runner.pc = "waiting"
    /\ runner' = except_clauses(runner, "KeyboardInterrupt")
    /\ UNCHANGED <<call, webVars, cli, two>>

\* process.wait(timeout=5) returns: the child has exited
RunnerGraceReturns ==
    /\ runner.pc = "grace"
    /\ runner.child = "exited"
    /\ runner' = Exit(runner, sys_exit(0), "server_stopped")
    /\ UNCHANGED <<call, webVars, cli, two>>

\* process.wait(timeout=5) raises TimeoutExpired: process.kill()
RunnerGraceTimeout ==
    /\ runner.pc = "grace"
    /\ runner.child = "running"
    /\ runner' = Exit([runner EXCEPT !.signals = @ \cup {SIGKILL}], sys_exit(0),
                      "server_stopped")
    /\ UNCHANGED <<call, webVars, cli, two>>

\* Ctrl+C while process.wait(timeout=5) blocks: no clause catches it there
RunnerGraceInterrupted ==
    /\ runner.pc = "grace"
    /\ \E code \in ExitCodes("KeyboardInterrupt") :
          runner' = Exit(runner, code, "traceback")
    /\ UNCHANGED <<call, webVars, cli, two>>

\* Waitress exits by itself.
ChildExits ==
    /\ runner.child = "running"
    /\ \E c \in ChildCodes :
          runner' = [runner EXCEPT !.child = "exited", !.returncode = c]
    /\ UNCHANGED <<call, webVars, cli, two>>

\* A signal of the runner ends Waitress.
ChildSignalled ==
    /\ runner.child = "running"
    /\ \E sig \in runner.signals :
          runner' = [runner EXCEPT !.child = "exited", !.returncode = 0 - sig]
    /\ UNCHANGED <<call, webVars, cli, two>>

NextRunner ==
    \/ RunnerStart
    \/ RunnerBanner
    \/ RunnerWaitReturns
    \/ RunnerWaitInterrupted
    \/ RunnerGraceReturns
    \/ RunnerGraceTimeout
    \/ RunnerGraceInterrupted
    \/ ChildExits
    \/ ChildSignalled

SpecRunner == Init /\ [][NextRunner]_vars

\* C22: the runner does not exit while the child it started runs without
\* a signal of the runner; after Ctrl+C it terminates a running child,
\* kills it when the grace wait times out and exits 0, unless a further
\* Ctrl+C ends the grace wait, which ends the runner at once with a
\* non-zero code and the child terminated; after another exception it
\* kills a running child and exits 1; when the child exits by itself with
\* a non-zero code the runner exits with that code.
RunnerExited == runner.pc = "exited"
How == runner.out[Len(runner.out)]
CtrlC == \E i \in 1..Len(runner.out) : runner.out[i] = "ctrl_c"
C22_RunnerCleansUp ==
    RunnerExited =>
        /\ runner.child = "running" => runner.signals # {}
        /\ How = "server_stopped" =>
              /\ runner.code = 0
              /\ runner.child = "running" => runner.signals = {SIGTERM, SIGKILL}
        /\ How = "traceback" =>
              /\ runner.code # 0
              /\ SIGTERM \in runner.signals
        /\ How = "unexpected_error" =>
              /\ runner.code = 1
              /\ runner.child = "running" => SIGKILL \in runner.signals
        /\ How = "waitress_error" =>
              /\ runner.child = "exited"
              /\ runner.code = runner.returncode
              /\ runner.code # 0
        /\ (How = "returned" \/ (runner.child = "exited" /\ runner.signals = {}
                                 /\ runner.returncode # 0 /\ ~CtrlC
                                 /\ How # "unexpected_error"))
           => runner.code = runner.returncode

C22_Witness ==
    /\ RunnerExited
    /\ How = "server_stopped"
    /\ runner.child = "running"
    /\ runner.signals = {SIGTERM, SIGKILL}
    /\ runner.code = 0

\* C22 as stated: after Ctrl+C the runner always exits 0, with a running
\* child terminated and, after the grace wait, killed.
C22_CtrlCExitsZero ==
    (RunnerExited /\ CtrlC) =>
        /\ runner.code = 0
        /\ runner.child = "running" => runner.signals = {SIGTERM, SIGKILL}

\* ------------------------------------------------------------ core properties
QueryFns == {"query_hunyuan_model", "hunyuan.query_hunyuan", "hunyuan_shell.query_hunyuan"}
TransportOutcome == Head(call.outs)
TransportCalls == Len(call.outs) - Len(call.res.rest)

\* C4: a dispatch that succeeds returns a string, never None, in every query
\* function of the repository; a None from predict becomes the empty string.
C4_DispatchReturnsString ==
    (call.fn \in QueryFns /\ ~call.res.raised) =>
        /\ call.res.value.t = "str"
        /\ TransportOutcome.value = PyNone => call.res.value = PyStr(<<>>)

\* C5: on a non-empty target, whatever Exception the transport raises,
\* connect_client either returns the client the transport created or raises
\* ConnectionSetupError; nothing else escapes and no null handle is returned.
C5_ConnectTwoOutcomes ==
    (/\ call.fn = "connect_client"
     /\ call.url # <<>>
     /\ TransportOutcome.ok \/ isinstance(TransportOutcome.exc, "Exception")) =>
        \/ /\ TransportOutcome.ok
           /\ ~call.res.raised
           /\ call.res.client = GradioClient(call.url)
        \/ /\ ~TransportOutcome.ok
           /\ call.res.raised
           /\ call.res.exc = "ConnectionSetupError"
           /\ call.res.cause = TransportOutcome.exc

C5_Witness ==
    /\ call.fn = "connect_client"
    /\ TransportOutcome = Fails("TimeoutError")
    /\ call.res.raised
    /\ call.res.exc = "ConnectionSetupError"

\* C6: in every query function, a dispatch that fails on an Exception of the
\* transport surfaces as the transport kind (ConnectionError) or as the
\* prediction kind (PredictionError, RuntimeError), raised from the
\* transport's exception, which itself never reaches the caller.
C6_TwoFailureKinds ==
    (/\ call.fn \in QueryFns
     /\ ~TransportOutcome.ok
     /\ isinstance(TransportOutcome.exc, "Exception")) =>
        /\ call.res.raised
        /\ call.res.exc \in {"ConnectionError", "PredictionError", "RuntimeError"}
        /\ call.res.cause = TransportOutcome.exc

\* C7: a dispatch that fails for a network reason (connection drop, reset,
\* timeout) is reported as the transport kind, never as the prediction kind.
NetworkFailures == {"ConnectionError", "ConnectionResetError", "TimeoutError"}
C7_NetworkIsTransportKind ==
    (/\ call.fn \in {"query_hunyuan_model", "hunyuan.query_hunyuan"}
     /\ ~TransportOutcome.ok
     /\ TransportOutcome.exc \in NetworkFailures) =>
        /\ call.res.raised
        /\ call.res.exc = "ConnectionError"

\* C10: one call of connect_client makes at most one constructor call and one
\* call of query_hunyuan_model makes at most one predict call, on success
\* and on failure.
C10_NoRetry ==
    call.fn \in {"connect_client", "query_hunyuan_model"} => TransportCalls <= 1

C10_Witness ==
    /\ call.fn = "connect_client"
    /\ ~TransportOutcome.ok
    /\ call.outs[2].ok
    /\ call.res.raised
    /\ TransportCalls = 1

====
